---- MODULE Spec2Model ----
(***************************************************************************)
(* Model of dwave_networkx/drawing/pegasus_layout.py: the coordinate       *)
(* mapper pegasus_node_placer_2d and the closure _xy_coords it returns.    *)
(*                                                                         *)
(* Numbers: the code computes with Python floats.  Every quantity the      *)
(* mapper handles is a rational (integers, .5, .1, a quotient by           *)
(* m*tile_width), so the model computes with exact rationals <<n, d>>      *)
(* kept in lowest terms with d > 0; rounding of binary floating point is   *)
(* not modelled.                                                           *)
(***************************************************************************)
EXTENDS Integers, Sequences, FiniteSets, TLC

(* ------------------------------ bounds --------------------------------- *)
MaxM == 2          \* rows m ranges over 1..MaxM
MaxTile == 2       \* tile width ranges over 1..MaxTile
MaxDim == 3        \* dim ranges over -1..MaxDim, centers have length 0..MaxDim
MaxScale == 2      \* scale ranges over n and n/MaxScale with n in 1..MaxScale

(* --------------------------- exact rationals --------------------------- *)
Abs(n) == IF n < 0 THEN -n ELSE n

RECURSIVE GCD(_, _)
GCD(a, b) == IF b = 0 THEN a ELSE GCD(b, a % b)

Rat(n, d) ==
    LET s == IF d < 0 THEN -1 ELSE 1
        g == GCD(Abs(n), Abs(d))
    IN  <<(s * n) \div g, (s * d) \div g>>

FromInt(n) == <<n, 1>>
RAdd(a, b) == Rat(a[1] * b[2] + b[1] * a[2], a[2] * b[2])
RNeg(a) == <<-a[1], a[2]>>
RSub(a, b) == RAdd(a, RNeg(b))
RMul(a, b) == Rat(a[1] * b[1], a[2] * b[2])
RDivInt(a, n) == Rat(a[1], a[2] * n)
RLe(a, b) == a[1] * b[2] <= b[1] * a[2]

(* --------------------------- Python / NumPy ---------------------------- *)
\* A Python outcome is a value or a raised exception.
Value(v) == [exc |-> "none", val |-> v]
Raised(e) == [exc |-> e]
ValueError == "ValueError"
IndexError == "IndexError"

\* The center argument: None, or an explicit sequence of numbers.
None == [given |-> FALSE]
Explicit(c) == [given |-> TRUE, coords |-> c]

\* Indexing that rejects every negative k (no counting from the end).
ListGetNoWrap(seq, k) ==
    IF 0 <= k /\ k < Len(seq) THEN Value(seq[k + 1]) ELSE Raised(IndexError)

\* seq[k] on a Python list: negative k counts from the end, anything
\* outside -len .. len-1 raises IndexError.
ListGet(seq, k) ==
    IF 0 <= k /\ k < Len(seq) THEN Value(seq[k + 1])
    ELSE IF -Len(seq) <= k /\ k < 0 THEN Value(seq[Len(seq) + k + 1])
    ELSE Raised(IndexError)

\* np.zeros(n): a vector of n zeros; a negative n is a ValueError.
np_zeros(n) == IF n < 0 THEN Raised(ValueError) ELSE Value([j \in 1..n |-> FromInt(0)])

\* np.asarray(center) of a sequence of numbers.
np_asarray(c) == Value([j \in 1..Len(c) |-> FromInt(c[j])])

\* a + b on one-dimensional arrays: element-wise on equal lengths, a
\* length-1 operand is broadcast, any other pair of shapes is a ValueError.
np_add(a, b) ==
    IF Len(a) = Len(b) THEN Value([j \in 1..Len(a) |-> RAdd(a[j], b[j])])
    ELSE IF Len(a) = 1 THEN Value([j \in 1..Len(b) |-> RAdd(a[1], b[j])])
    ELSE IF Len(b) = 1 THEN Value([j \in 1..Len(a) |-> RAdd(a[j], b[1])])
    ELSE Raised(ValueError)

(* --------------------- pegasus_node_placer_2d -------------------------- *)
\* The constructor without the check of line 128.
PlacerNoLengthCheck(Gr, scale_, center_, dim_) ==
    LET tile_width == Gr.tile
        center2 == IF ~center_.given THEN np_zeros(dim_) ELSE np_asarray(center_.coords)
        paddims == dim_ - 2
    IN  IF center2.exc # "none" THEN Raised(ValueError)
        ELSE IF paddims < 0 THEN Raised(ValueError)
        ELSE Value([h_offsets |-> Gr.horizontal_offsets, v_offsets |-> Gr.vertical_offsets,
                    tile_width |-> tile_width,
                    tile_center |-> RSub(Rat(tile_width, 2), Rat(1, 2)),
                    scale |-> RDivInt(scale_, Gr.rows * tile_width),
                    center |-> center2.val, paddims |-> paddims])

\* The constructor with line 117 as  scale = 1 / (m * tile_width).
PlacerScaleDropped(Gr, scale_, center_, dim_) ==
    LET tile_width == Gr.tile
        center2 == IF ~center_.given THEN np_zeros(dim_) ELSE np_asarray(center_.coords)
        paddims == dim_ - 2
    IN  IF center2.exc # "none" THEN Raised(ValueError)
        ELSE IF paddims < 0 THEN Raised(ValueError)
        ELSE IF Len(center2.val) # dim_ THEN Raised(ValueError)
        ELSE Value([h_offsets |-> Gr.horizontal_offsets, v_offsets |-> Gr.vertical_offsets,
                    tile_width |-> tile_width,
                    tile_center |-> RSub(Rat(tile_width, 2), Rat(1, 2)),
                    scale |-> RDivInt(FromInt(1), Gr.rows * tile_width),
                    center |-> center2.val, paddims |-> paddims])

\* The value of pegasus_node_placer_2d(G, scale, center, dim): ValueError,
\* or the closure of _xy_coords (the variables the inner function reads).
pegasus_node_placer_2d(Gr, scale_, center_, dim_) ==
    LET m == Gr.rows
        h_offsets == Gr.horizontal_offsets
        v_offsets == Gr.vertical_offsets
        tile_width == Gr.tile
        tile_center == RSub(Rat(tile_width, 2), Rat(1, 2))
        scale2 == RDivInt(scale_, m * tile_width)
        center2 == IF ~center_.given THEN np_zeros(dim_) ELSE np_asarray(center_.coords)
        paddims == dim_ - 2
    IN  IF center2.exc # "none" THEN Raised(ValueError)
        ELSE IF paddims < 0 THEN Raised(ValueError)
        ELSE IF Len(center2.val) # dim_ THEN Raised(ValueError)
        ELSE Value([h_offsets |-> h_offsets, v_offsets |-> v_offsets,
                    tile_width |-> tile_width, tile_center |-> tile_center,
                    scale |-> scale2, center |-> center2.val, paddims |-> paddims])

(* ----------------------------- _xy_coords ------------------------------ *)
\* The parity test inverted: +.1 for odd k.
ParityOffsetInverted(k) == IF k % 2 # 0 THEN Rat(1, 10) ELSE Rat(-1, 10)

\* The offset with magnitude .5 instead of .1.
ParityOffsetHalf(k) == IF k % 2 # 0 THEN Rat(-1, 2) ELSE Rat(1, 2)

\* lines 134-137: the parity offset p.
ParityOffset(k) == IF k % 2 # 0 THEN Rat(-1, 10) ELSE Rat(1, 10)

\* The horizontal branch with +p where the code has -p.
RawXYSignSlip(cl, u, w, k, z, p) ==
    IF u # 0
    THEN LET o == ListGet(cl.h_offsets, k)
         IN  IF o.exc # "none" THEN o
             ELSE Value(<< RAdd(FromInt(z * cl.tile_width + o.val), cl.tile_center),
                           RAdd(FromInt(-cl.tile_width * w - k), p) >>)
    ELSE LET o == ListGet(cl.v_offsets, k)
         IN  IF o.exc # "none" THEN o
             ELSE Value(<< RAdd(FromInt(cl.tile_width * w + k), p),
                           RSub(FromInt(-z * cl.tile_width - o.val), cl.tile_center) >>)

\* The vertical branch reading h_offsets where the code reads v_offsets.
RawXYOneTable(cl, u, w, k, z, p) ==
    IF u # 0
    THEN LET o == ListGet(cl.h_offsets, k)
         IN  IF o.exc # "none" THEN o
             ELSE Value(<< RAdd(FromInt(z * cl.tile_width + o.val), cl.tile_center),
                           RSub(FromInt(-cl.tile_width * w - k), p) >>)
    ELSE LET o == ListGet(cl.h_offsets, k)
         IN  IF o.exc # "none" THEN o
             ELSE Value(<< RAdd(FromInt(cl.tile_width * w + k), p),
                           RSub(FromInt(-z * cl.tile_width - o.val), cl.tile_center) >>)

\* lines 139-142: the raw 2-vector xy, or IndexError from the table lookup.
RawXY(cl, u, w, k, z, p) ==
    IF u # 0
    THEN LET o == ListGet(cl.h_offsets, k)
         IN  IF o.exc # "none" THEN o
             ELSE Value(<< RAdd(FromInt(z * cl.tile_width + o.val), cl.tile_center),
                           RSub(FromInt(-cl.tile_width * w - k), p) >>)
    ELSE LET o == ListGet(cl.v_offsets, k)
         IN  IF o.exc # "none" THEN o
             ELSE Value(<< RAdd(FromInt(cl.tile_width * w + k), p),
                           RSub(FromInt(-z * cl.tile_width - o.val), cl.tile_center) >>)

\* line 145 with the center added before the scaling:
\* (np.hstack((xy, np.zeros(paddims))) + center) * scale.
ReturnValueScaledCenter(cl, xy) ==
    LET pad == np_zeros(cl.paddims)
        sum == IF pad.exc # "none" THEN pad
               ELSE np_add([j \in 1..2 |-> xy[j]] \o pad.val, cl.center)
    IN  IF sum.exc # "none" THEN sum
        ELSE Value([j \in 1..Len(sum.val) |-> RMul(sum.val[j], cl.scale)])

\* line 145 padding with np.ones(paddims).
ReturnValuePadOnes(cl, xy) ==
    LET pad == np_zeros(cl.paddims)
    IN  IF pad.exc # "none" THEN pad
        ELSE np_add([j \in 1..2 |-> RMul(xy[j], cl.scale)]
                    \o [j \in 1..Len(pad.val) |-> FromInt(1)], cl.center)

\* line 145: np.hstack((xy * scale, np.zeros(paddims))) + center.
ReturnValue(cl, xy) ==
    LET pad == np_zeros(cl.paddims)
    IN  IF pad.exc # "none" THEN pad
        ELSE np_add([j \in 1..2 |-> RMul(xy[j], cl.scale)] \o pad.val, cl.center)

\* The whole call _xy_coords(u, w, k, z) on closure cl.
xy_coords(cl, u, w, k, z) ==
    LET xy == RawXY(cl, u, w, k, z, ParityOffset(k))
    IN  IF xy.exc # "none" THEN xy ELSE ReturnValue(cl, xy.val)

(* ------------------------------- inputs -------------------------------- *)
\* Offset tables for a tile width t: entries in 0..t-1; the table may be
\* longer than t.
Ascending(t, L) == [i \in 1..L |-> (i - 1) % t]
Flat(t, L) == [i \in 1..L |-> t - 1]
Tables(t) == {Ascending(t, t), Flat(t, t + 1)}

Graph(m, t, h, v) ==
    [rows |-> m, tile |-> t, horizontal_offsets |-> h, vertical_offsets |-> v]

\* The geometry of the worked example: m = 1, tile 4, both tables [0,1,2,3].
ExampleGraph == Graph(1, 4, <<0, 1, 2, 3>>, <<0, 1, 2, 3>>)

\* Graphs whose two tables differ (in content and in length), and the example.
Graphs ==
    UNION {{g \in {Graph(m, t, h, v) : m \in 1..MaxM, h \in Tables(t), v \in Tables(t)} :
              g.horizontal_offsets # g.vertical_offsets} : t \in 1..MaxTile}
    \cup {ExampleGraph}

Scales == {Rat(n, d) : n \in 1..MaxScale, d \in {1, MaxScale}}
Dims == (-1)..MaxDim
Centers == {None} \cup {Explicit([j \in 1..L |-> 2 * j - 3]) : L \in 0..MaxDim}

\* Index tuples offered to a placement function over graph g: in and out
\* of range in every component.
Indices(g) ==
    {<<u, w, k, z>> : u \in {0, 1, 2}, w \in {-1, 0, g.rows - 1},
                      k \in (-(g.tile + 2))..(g.tile + 1), z \in {-1, 0, g.rows - 2, g.rows - 1}}

\* The few indices used when two callers interleave.
FewIndices == {<<u, 0, k, 0>> : u \in {0, 1}, k \in {0, 1, 3}}

Callers == {1, 2}

(* -------------------------------- state -------------------------------- *)
VARIABLES
    G,        \* the graph attributes read by pegasus_node_placer_2d
    args,     \* the (scale, center, dim) the constructor was called with
    placer,   \* Unbuilt, or the outcome of the constructor: ValueError or the closure
    pc,       \* per caller: "idle", "body", "ret", "done"
    idx,      \* per caller: the (u, w, k, z) of its current or last call
    xy,       \* per caller: the local xy of a call in progress
    result    \* per caller: what its last call returned or raised

vars == <<G, args, placer, pc, idx, xy, result>>

Unbuilt == Raised("unbuilt")
NoArgs == [called |-> FALSE]
NoResult == Raised("nothing")

StartState(graphs) ==
    /\ G \in graphs
    /\ args = NoArgs
    /\ placer = Unbuilt
    /\ pc = [c \in Callers |-> "idle"]
    /\ idx = [c \in Callers |-> <<0, 0, 0, 0>>]
    /\ xy = [c \in Callers |-> <<>>]
    /\ result = [c \in Callers |-> NoResult]

\* pegasus_node_placer_2d(G, scale, center, dim) is called once, with
\* arguments drawn from the given sets.
Build(scales, centers, dims) ==
    /\ placer.exc = "unbuilt"
    /\ \E s \in scales, c \in centers, d \in dims :
          /\ args' = [called |-> TRUE, scale |-> s, center |-> c, dim |-> d]
          /\ placer' = pegasus_node_placer_2d(G, s, c, d)
    /\ UNCHANGED <<G, pc, idx, xy, result>>

\* Caller c enters _xy_coords(u, w, k, z) with an index of the given set:
\* the arguments are bound.
Enter(c, indices) ==
    /\ placer.exc = "none"
    /\ pc[c] = "idle"
    /\ \E i \in indices : idx' = [idx EXCEPT ![c] = i]
    /\ pc' = [pc EXCEPT ![c] = "body"]
    /\ UNCHANGED <<G, args, placer, xy, result>>

\* lines 134-142: p and xy are computed; a failed table lookup raises.
Compute(c) ==
    /\ pc[c] = "body"
    /\ LET i == idx[c]
           r == RawXY(placer.val, i[1], i[2], i[3], i[4], ParityOffset(i[3]))
       IN  IF r.exc # "none"
           THEN /\ result' = [result EXCEPT ![c] = r]
                /\ pc' = [pc EXCEPT ![c] = "done"]
                /\ xy' = xy
           ELSE /\ xy' = [xy EXCEPT ![c] = r.val]
                /\ pc' = [pc EXCEPT ![c] = "ret"]
                /\ result' = result
    /\ UNCHANGED <<G, args, placer, idx>>

\* line 145 with the sum written back into the closed-over center
\* (center += ...) instead of into a fresh array.
ReturnInPlace(c) ==
    /\ pc[c] = "ret"
    /\ LET r == ReturnValue(placer.val, xy[c])
       IN  /\ result' = [result EXCEPT ![c] = r]
           /\ placer' = IF r.exc = "none" THEN Value([placer.val EXCEPT !.center = r.val])
                         ELSE placer
    /\ xy' = [xy EXCEPT ![c] = <<>>]
    /\ pc' = [pc EXCEPT ![c] = "done"]
    /\ UNCHANGED <<G, args, idx>>

\* line 145: the result vector is built and returned.
Return(c) ==
    /\ pc[c] = "ret"
    /\ result' = [result EXCEPT ![c] = ReturnValue(placer.val, xy[c])]
    /\ xy' = [xy EXCEPT ![c] = <<>>]
    /\ pc' = [pc EXCEPT ![c] = "done"]
    /\ UNCHANGED <<G, args, placer, idx>>

\* The caller takes the outcome of its call (pegasus_layout stores the
\* vector under the node) and is free to call again.
Resume(c) ==
    /\ pc[c] = "done"
    /\ pc' = [pc EXCEPT ![c] = "idle"]
    /\ idx' = [idx EXCEPT ![c] = <<0, 0, 0, 0>>]
    /\ result' = [result EXCEPT ![c] = NoResult]
    /\ UNCHANGED <<G, args, placer, xy>>

(* Two callers share one placement function. *)
Init == StartState({g \in Graphs : g.tile = 2 /\ g.rows = 1})

Next ==
    \/ Build({<<1, 1>>}, {None, Explicit(<<-1, 1>>), Explicit(<<0, 0, 0>>)}, {1, 2, 3})
    \/ \E c \in Callers : Enter(c, FewIndices)
    \/ \E c \in Callers : Compute(c)
    \/ \E c \in Callers : Return(c)
    \/ \E c \in Callers : Resume(c)

Spec == Init /\ [][Next]_vars

(* One caller; every geometry, configuration and index of the bounds. *)
InitFn == StartState(Graphs)

NextFn ==
    \/ Build(Scales, Centers, Dims)
    \/ Enter(1, Indices(G))
    \/ Compute(1)
    \/ Return(1)
    \/ Resume(1)

SpecFn == InitFn /\ [][NextFn]_vars

(* ------------------------------ properties ----------------------------- *)
\* Caller c's last call has finished (returned or raised) / has returned.
Completed(c) == pc[c] = "done"
Returned(c) == pc[c] = "done" /\ result[c].exc = "none"

\* Same outcome: the same exception, or the same value.
SameOutcome(a, b) == a.exc = b.exc /\ (a.exc = "none" => a.val = b.val)

\* u in {0,1} and 0 <= k < tile_width.
InTile(i) == i[1] \in {0, 1} /\ 0 <= i[3] /\ i[3] < G.tile

\* The index of a node of the Pegasus graph of size m.
LatticeIndex(i) ==
    /\ InTile(i)
    /\ 0 <= i[2] /\ i[2] < G.rows
    /\ 0 <= i[4] /\ i[4] < G.rows - 1

\* The center the constructor was given: None stands for the zero vector.
CenterOf(a) ==
    [j \in 1..a.dim |-> IF a.center.given THEN <<a.center.coords[j], 1>> ELSE <<0, 1>>]

ZeroCenter(a) ==
    a.center.given => \A j \in 1..Len(a.center.coords) : a.center.coords[j] = 0

\* C1: for u in {0,1} and 0 <= k < tile_width the first two components of
\* the output are c[0] + s'*x and c[1] + s'*y with s' = s/(m*tile_width),
\* (x, y) = (z*tile_width + horizontal_offsets[k] + tile_center,
\* -(tile_width*w + k + p)) for u = 1 and (tile_width*w + k + p,
\* -(z*tile_width + vertical_offsets[k] + tile_center)) for u = 0, where
\* p = -0.1 for odd k, else +0.1, and tile_center = tile_width/2 - 0.5; the
\* worked example maps (1,0,0,0) to (0.375, -0.025).
C1_Placement ==
    /\ \A c \in Callers :
          (Completed(c) /\ InTile(idx[c])) =>
            LET u == idx[c][1]
                w == idx[c][2]
                k == idx[c][3]
                z == idx[c][4]
                tw == G.tile
                p == IF k % 2 = 1 THEN <<-1, 10>> ELSE <<1, 10>>
                tc == RSub(Rat(tw, 2), <<1, 2>>)
                s1 == Rat(args.scale[1], args.scale[2] * G.rows * tw)
                cv == CenterOf(args)
                x == IF u = 1
                     THEN RAdd(FromInt(z * tw + G.horizontal_offsets[k + 1]), tc)
                     ELSE RAdd(FromInt(tw * w + k), p)
                y == IF u = 1
                     THEN RNeg(RAdd(FromInt(tw * w + k), p))
                     ELSE RNeg(RAdd(FromInt(z * tw + G.vertical_offsets[k + 1]), tc))
            IN  /\ result[c].exc = "none"
                /\ result[c].val[1] = RAdd(cv[1], RMul(s1, x))
                /\ result[c].val[2] = RAdd(cv[2], RMul(s1, y))
    /\ \A c \in Callers :
          (/\ Completed(c) /\ G = ExampleGraph /\ idx[c] = <<1, 0, 0, 0>>
           /\ args.scale = <<1, 1>> /\ ~args.center.given /\ args.dim = 2)
          => /\ result[c].exc = "none"
             /\ result[c].val = << <<3, 8>>, <<-1, 40>> >>

C1_Witness ==
    /\ Returned(1) /\ G = ExampleGraph /\ idx[1] = <<1, 0, 0, 0>>
    /\ args.scale = <<1, 1>> /\ ~args.center.given /\ args.dim = 2

\* C2: the constructor raises ValueError exactly when dim < 2 or an
\* explicit center has a length other than dim; it then returns no placement
\* function (nothing is ever called), and a placement function that was
\* constructed never raises ValueError when called.
C2_ConfigError ==
    /\ args.called =>
          /\ placer.exc \in {"none", ValueError}
          /\ (placer.exc = ValueError) <=>
                 \/ args.dim < 2
                 \/ (args.center.given /\ Len(args.center.coords) # args.dim)
    /\ placer.exc # "none" => \A c \in Callers : pc[c] = "idle"
    /\ \A c \in Callers : result[c].exc # ValueError

C2_Witness ==
    /\ args.called /\ args.dim = 3
    /\ args.center.given /\ Len(args.center.coords) = 2
    /\ placer.exc = ValueError

\* C3: with scale 1 and a zero (or None) center, for m >= 2, table entries
\* in 0..tile_width-1 and a lattice index (u in {0,1}, 0 <= w < m,
\* 0 <= k < tile_width, 0 <= z < m-1), the output has 0 <= x <= 1 and
\* -1 <= y <= 0.
C3_UnitBox ==
    \A c \in Callers :
      (/\ Completed(c) /\ LatticeIndex(idx[c])
       /\ G.rows >= 2
       /\ \A j \in 1..Len(G.horizontal_offsets) :
             G.horizontal_offsets[j] \in 0..(G.tile - 1)
       /\ \A j \in 1..Len(G.vertical_offsets) :
             G.vertical_offsets[j] \in 0..(G.tile - 1)
       /\ args.scale = <<1, 1>> /\ ZeroCenter(args))
      => /\ result[c].exc = "none"
         /\ RLe(<<0, 1>>, result[c].val[1]) /\ RLe(result[c].val[1], <<1, 1>>)
         /\ RLe(<<-1, 1>>, result[c].val[2]) /\ RLe(result[c].val[2], <<0, 1>>)

C3_Witness ==
    /\ Returned(1) /\ G.rows >= 2 /\ G.tile >= 2
    /\ args.scale = <<1, 1>> /\ ZeroCenter(args)
    /\ idx[1] = <<1, G.rows - 1, G.tile - 1, G.rows - 2>>
    /\ G.horizontal_offsets[G.tile] = G.tile - 1

\* C4 as stated: every call on a constructed placement function, whatever
\* the integers u, w, k, z, returns a vector of length dim.
C4_NeverErrors ==
    \A c \in Callers :
      Completed(c) => (result[c].exc = "none" /\ Len(result[c].val) = args.dim)

\* C4 amended: u, w and z are never checked and never make the call fail;
\* the call returns a vector of length dim exactly when k indexes the
\* offset table it reads (horizontal_offsets for non-zero u, else
\* vertical_offsets) as a Python sequence, -len <= k < len, and raises
\* IndexError for every other k.
C4_ErrorsOnlyOffTable ==
    \A c \in Callers :
      Completed(c) =>
        LET table == IF idx[c][1] # 0 THEN G.horizontal_offsets ELSE G.vertical_offsets
            k == idx[c][3]
        IN  IF -Len(table) <= k /\ k < Len(table)
            THEN result[c].exc = "none" /\ Len(result[c].val) = args.dim
            ELSE result[c].exc = IndexError

C4_Witness ==
    /\ Returned(1)
    /\ idx[1][1] = 2 /\ idx[1][2] < 0 /\ idx[1][3] < 0 /\ idx[1][4] < 0

\* C5: output - center is linear in scale: for every factor a, the placement
\* function built with scale a*s gives a displacement from the center a times
\* that of the one built with s; the padded components have none.
Factors == {<<2, 1>>, <<1, 3>>}

C5_ScaleLinearity ==
    \A c \in Callers : Returned(c) =>
      \A a \in Factors :
        LET other == pegasus_node_placer_2d(G, RMul(a, args.scale), args.center, args.dim)
            i == idx[c]
            r2 == xy_coords(other.val, i[1], i[2], i[3], i[4])
            cv == CenterOf(args)
        IN  /\ other.exc = "none" /\ r2.exc = "none"
            /\ Len(r2.val) = Len(result[c].val)
            /\ \A j \in 1..Len(r2.val) :
                  /\ RSub(r2.val[j], cv[j]) = RMul(a, RSub(result[c].val[j], cv[j]))
                  /\ j > 2 => RSub(result[c].val[j], cv[j]) = <<0, 1>>

C5_Witness ==
    /\ Returned(1) /\ args.scale = <<1, 2>> /\ args.dim = 3
    /\ args.center.given /\ args.center.coords[1] # 0

\* C6: two placement functions that differ only in the center give outputs
\* whose difference is the difference of the centers, component by
\* component; center None gives the outputs of the all-zero center.
ZeroVector(n) == [given |-> TRUE, coords |-> [j \in 1..n |-> 0]]

C6_CenterTranslation ==
    \A c \in Callers : Returned(c) =>
      LET i == idx[c]
          cv == CenterOf(args)
          Out(center2) ==
              xy_coords(pegasus_node_placer_2d(G, args.scale, center2, args.dim).val,
                        i[1], i[2], i[3], i[4])
      IN  /\ \A c2 \in {x \in Centers \ {None} : Len(x.coords) = args.dim}
                       \cup {ZeroVector(args.dim)} :
                LET r2 == Out(c2)
                IN  /\ r2.exc = "none"
                    /\ \A j \in 1..args.dim :
                          RSub(r2.val[j], result[c].val[j])
                            = RSub(<<c2.coords[j], 1>>, cv[j])
          /\ ~args.center.given => SameOutcome(Out(ZeroVector(args.dim)), result[c])
          /\ ZeroCenter(args) => SameOutcome(Out(None), result[c])

C6_Witness ==
    /\ Returned(1) /\ args.center.given /\ args.center.coords[2] # 0
    /\ args.scale # <<1, 1>>

\* C7: the output has exactly dim components, and every component after
\* the second equals the center's component at that position.
C7_DimensionPadding ==
    \A c \in Callers : Returned(c) =>
      /\ Len(result[c].val) = args.dim
      /\ \A j \in 3..args.dim : result[c].val[j] = CenterOf(args)[j]

C7_Witness ==
    /\ Returned(1) /\ args.dim = 3
    /\ args.center.given /\ args.center.coords[3] # 0

\* C8: the outcome of a call depends on the construction arguments and the
\* index alone, whatever calls of whatever callers come before or between:
\* two callers holding results for the same index hold the same result, and
\* no step of a call changes the graph attributes or the closure.
C8_Deterministic ==
    /\ [](\A c \in Callers : Completed(c) =>
            /\ SameOutcome(result[c],
                  xy_coords(pegasus_node_placer_2d(G, args.scale, args.center, args.dim).val,
                            idx[c][1], idx[c][2], idx[c][3], idx[c][4]))
            /\ \A c2 \in Callers :
                  (Completed(c2) /\ idx[c2] = idx[c]) => SameOutcome(result[c], result[c2]))
    /\ [][placer.exc = "none" => (placer' = placer /\ G' = G /\ args' = args)]_vars

C8_Witness ==
    /\ Returned(1) /\ Returned(2) /\ idx[1] = idx[2]
    /\ args.center.given /\ ~ZeroCenter(args)

\* C9: with a zero center, if the placement function over tables
\* (horizontal = A, vertical = B) maps (1, w, k, z) to (x, y), the one over
\* (horizontal = B, vertical = A) maps (0, w, k, z) to (-y, -x): the same p
\* is used in both orientations.
C9_OrientationSymmetry ==
    \A c \in Callers :
      (Returned(c) /\ InTile(idx[c]) /\ idx[c][1] = 1 /\ ZeroCenter(args)) =>
        LET swapped == Graph(G.rows, G.tile, G.vertical_offsets, G.horizontal_offsets)
            other == pegasus_node_placer_2d(swapped, args.scale, args.center, args.dim)
            r0 == xy_coords(other.val, 0, idx[c][2], idx[c][3], idx[c][4])
        IN  /\ r0.exc = "none"
            /\ r0.val[1] = RNeg(result[c].val[2])
            /\ r0.val[2] = RNeg(result[c].val[1])

C9_Witness ==
    /\ Returned(1) /\ InTile(idx[1]) /\ idx[1][1] = 1 /\ idx[1][3] % 2 = 1
    /\ ZeroCenter(args)
    /\ G.horizontal_offsets # G.vertical_offsets

\* C10: on indices with u in {0,1} and 0 <= k < tile_width the placement
\* function is injective: no other such index, of the same or of the other
\* orientation, is mapped to the same output.
C10_Injective ==
    \A c \in Callers :
      (Returned(c) /\ InTile(idx[c])) =>
        \A i \in {j \in Indices(G) : InTile(j)} :
          i # idx[c] =>
            LET r2 == xy_coords(placer.val, i[1], i[2], i[3], i[4])
            IN  r2.exc = "none" /\ r2.val # result[c].val

C10_Witness ==
    /\ Returned(1) /\ InTile(idx[1]) /\ G.tile >= 2
    /\ idx[1][3] = 0 /\ idx[1][1] = 0
    /\ G.vertical_offsets[1] = G.vertical_offsets[2]

====
